---------------------------- MODULE Spec2Model ----------------------------
(***************************************************************************)
(* Model of src/src/stackexchange.rs (Byron/so): the StackExchange search  *)
(* client.  The state machine covers search / search_lucky, the DuckDuckGo *)
(* discovery path (parse_questions_from_ddg_html, question_url_to_id), the *)
(* two buffer_unordered fan-outs (se_search_advanced, se_questions) and    *)
(* preprocess.                                                             *)
(*                                                                         *)
(* Strings are TLA+ strings; SubSeq(s, i, i) is the i-th character.        *)
(* Option<T> is a sequence of length 0 (None) or 1 (Some).                 *)
(* Result<T> is a record [tag |-> "Ok", val |-> ..] or                     *)
(* [tag |-> "Err", err |-> ..].                                            *)
(***************************************************************************)
EXTENDS Integers, Sequences, FiniteSets, TLC

(***************************************************************************)
(* Program constants and integer widths                                    *)
(***************************************************************************)
CONCURRENT_REQUESTS_LIMIT == 8

MinI32 == (-2147483647) - 1
MaxI32 == 2147483647
MaxU16 == 65535

(***************************************************************************)
(* Bounds of the model                                                     *)
(***************************************************************************)
\* sites configured in the data-rich searches
MaxSites == 2
\* questions in one site's response
MaxQuestions == 2
\* answers in one question of a response
MaxAnswers == 2
\* organic-result anchors in a discovery document
MaxAnchors == 3
\* sites configured beyond CONCURRENT_REQUESTS_LIMIT in the wide fan-outs
ExtraSites == 1

None == <<>>
\* HashMap::new()
EmptyMap == [c \in {} |-> <<>>]
Some(x) == <<x>>
Ok(x) == [tag |-> "Ok", val |-> x]
Err(e) == [tag |-> "Err", err |-> e]

\* crate::error::Error values produced in this file
ScrapingError(msg) == [kind |-> "ScrapingError", msg |-> msg]
StackExchangeError(msg) == [kind |-> "StackExchange", msg |-> msg]
NoResults == [kind |-> "NoResults", msg |-> ""]
\* Error::from(reqwest::Error): `send().await?` and `.json().await?`
ReqwestError(msg) == [kind |-> "Reqwest", msg |-> msg]
\* Error::from(tokio::task::JoinError): the spawned task panicked
JoinError == [kind |-> "Join", msg |-> "task panicked"]

(***************************************************************************)
(* String helpers (str::find, str::trim_end_matches)                       *)
(***************************************************************************)
Char(s, i) == SubSeq(s, i, i)

RECURSIVE FindFrom(_, _, _)
\* index of the first occurrence of pat in s at or after position i; 0 if none
FindFrom(s, pat, i) ==
    IF i + Len(pat) - 1 > Len(s) THEN 0
    ELSE IF Char(s, i) = Char(pat, 1) /\ SubSeq(s, i, i + Len(pat) - 1) = pat
         THEN i
    ELSE FindFrom(s, pat, i + 1)

Find(s, pat) == FindFrom(s, pat, 1)

RECURSIVE trim_end_matches(_, _)
trim_end_matches(s, c) ==
    IF Len(s) > 0 /\ Char(s, Len(s)) = c
    THEN trim_end_matches(SubSeq(s, 1, Len(s) - 1), c)
    ELSE s

HexDigits == "0123456789abcdefABCDEF"

IsHexDigit(c) == Find(HexDigits, c) # 0

\* the byte a %XX escape stands for, for the escapes the documents below use;
\* any other byte is shown as "?"
HexByte(xx) ==
    CASE xx \in {"2F", "2f"} -> "/"
      [] xx \in {"3A", "3a"} -> ":"
      [] xx = "2E" -> "."
      [] xx = "3F" -> "?"
      [] xx = "3D" -> "="
      [] xx = "25" -> "%"
      [] OTHER -> "?"

RECURSIVE percent_decode_from(_, _)
\* the decoding of s from position i on: the text up to the next '%' is kept;
\* %XX with two hex digits is replaced by its byte; any other '%' is kept
percent_decode_from(s, i) ==
    LET p == FindFrom(s, "%", i)
    IN  IF p = 0 THEN SubSeq(s, i, Len(s))
        ELSE IF p + 2 <= Len(s) /\ IsHexDigit(Char(s, p + 1))
                /\ IsHexDigit(Char(s, p + 2))
             THEN SubSeq(s, i, p - 1) \o HexByte(SubSeq(s, p + 1, p + 2))
                    \o percent_decode_from(s, p + 3)
             ELSE SubSeq(s, i, p) \o percent_decode_from(s, p + 1)

\* percent_decode_str(href).decode_utf8_lossy()
percent_decode_str(s) == percent_decode_from(s, 1)

(***************************************************************************)
(* question_url_to_id                                                      *)
(***************************************************************************)
\* mutant of question_url_to_id: the trailing slashes of the url are kept
question_url_to_id_untrimmed(site_url, input) ==
    LET fragment == site_url \o "/questions/"
        at == Find(input, fragment)
    IN  IF at = 0 THEN None
        ELSE LET rest == SubSeq(input, at + Len(fragment), Len(input))
                 end == Find(rest, "/")
             IN  IF end = 0 THEN None
                 ELSE Some(SubSeq(rest, 1, end - 1))

question_url_to_id(site_url, input) ==
    LET fragment == trim_end_matches(site_url, "/") \o "/questions/"
        at == Find(input, fragment)
    IN  IF at = 0 THEN None
        ELSE LET rest == SubSeq(input, at + Len(fragment), Len(input))
                 end == Find(rest, "/")
             IN  IF end = 0 THEN None
                 ELSE Some(SubSeq(rest, 1, end - 1))

(***************************************************************************)
(* parse_questions_from_ddg_html                                           *)
(*                                                                         *)
(* html is the document as the scraper crate sees it: the sequence, in     *)
(* document order, of the anchors selected by "a.result__a", each given by *)
(* its href attribute (an Option).  sites is the code -> url map and       *)
(* sites_iter the order in which this HashMap iterates.                    *)
(***************************************************************************)
RECURSIVE find_map_site(_, _, _, _)
\* sites.iter().find_map(..): the first site, in iteration order, whose url
\* matches; Some(<<site_code, id>>) or None
find_map_site(sites, sites_iter, url, i) ==
    IF i > Len(sites_iter) THEN None
    ELSE LET id == question_url_to_id(sites[sites_iter[i]], url)
         IN  IF id # None THEN Some(<<sites_iter[i], id[1]>>)
             ELSE find_map_site(sites, sites_iter, url, i + 1)

\* mutant of entry_push: an id already in the site's list is not added again
entry_push_dedup(qids, site_code, id) ==
    IF site_code \in DOMAIN qids
    THEN [qids EXCEPT ![site_code] =
             IF \E k \in 1..Len(@) : @[k] = id THEN @ ELSE Append(@, id)]
    ELSE [c \in DOMAIN qids \cup {site_code} |->
            IF c = site_code THEN <<id>> ELSE qids[c]]

\* qids.entry(site_code): push on an occupied entry, insert vec![id] otherwise
entry_push(qids, site_code, id) ==
    IF site_code \in DOMAIN qids
    THEN [qids EXCEPT ![site_code] = Append(@, id)]
    ELSE [c \in DOMAIN qids \cup {site_code} |->
            IF c = site_code THEN <<id>> ELSE qids[c]]

\* mutant of limit_reached: the loop goes one anchor further
limit_reached_late(count, limit) == count > limit

\* `if count >= limit as usize { break; }`
limit_reached(count, limit) == count >= limit

\* mutant of parse_finish: the check for zero candidates is missing
parse_finish_unchecked(qids, count) == Ok(qids)

\* the end of the function: `if count == 0 { Err(blocked) } else { Ok(qids) }`
parse_finish(qids, count) ==
    IF count = 0
    THEN Err(ScrapingError("DuckDuckGo blocked this request"))
    ELSE Ok(qids)

RECURSIVE parse_loop(_, _, _, _, _, _, _)
\* the `for anchor in fragment.select(&anchors)` loop from anchor i on
parse_loop(html, sites, sites_iter, limit, i, qids, count) ==
    IF i > Len(html) THEN parse_finish(qids, count)
    ELSE IF html[i] = None THEN Err(ScrapingError("Anchor with no href"))
    ELSE LET url == percent_decode_str(html[i][1])
             hit == find_map_site(sites, sites_iter, url, 1)
         IN  IF hit = None
             THEN Err(ScrapingError("Duckduckgo returned results outside of SE network"))
             ELSE LET qids2 == entry_push(qids, hit[1][1], hit[1][2])
                      count2 == count + 1
                  IN  IF limit_reached(count2, limit)
                      THEN parse_finish(qids2, count2)
                      ELSE parse_loop(html, sites, sites_iter, limit, i + 1,
                                      qids2, count2)

parse_questions_from_ddg_html(html, sites, sites_iter, limit) ==
    parse_loop(html, sites, sites_iter, limit, 1, EmptyMap, 0)


(***************************************************************************)
(* LocalStorage::get_urls and duckduckgo_url                               *)
(***************************************************************************)
\* directory is LocalStorage.sites, a sequence of Site records; the result is
\* the HashMap code -> url of the configured codes the directory knows
get_urls(directory, site_codes) ==
    LET present == {k \in 1..Len(directory) :
                      \E j \in 1..Len(site_codes) :
                          site_codes[j] = directory[k].api_site_parameter}
    IN  [c \in {directory[k].api_site_parameter : k \in present} |->
            directory[CHOOSE k \in present :
                        directory[k].api_site_parameter = c].site_url]

\* the `site:` clauses of the discovery query, in the order of sites.values()
duckduckgo_url(sites, sites_iter) ==
    [k \in 1..Len(sites_iter) |-> "site:" \o sites[sites_iter[k]]]

(***************************************************************************)
(* Integer negation of the sort keys, `-q.score` and `-a.score` on i32     *)
(***************************************************************************)
\* -x overflows for x = i32::MIN: a build with overflow checks panics (None),
\* a build without them wraps to i32::MIN
neg_i32(x, checked) ==
    IF x = MinI32
    THEN (IF checked THEN None ELSE Some(MinI32))
    ELSE Some(-x)

\* the key closure |e| -e.score of both sorts
sort_key(e, checked) == neg_i32(e.score, checked)

SetMin(S) == CHOOSE m \in S : \A x \in S : m <= x

RECURSIVE sort_orders(_, _)
\* the orders of the indices S that are non-decreasing in keys; elements with
\* equal keys may come out in any order (the sort is unstable)
sort_orders(keys, S) ==
    IF S = {} THEN {<<>>}
    ELSE LET m == SetMin({keys[j] : j \in S})
         IN  UNION {{<<i>> \o t : t \in sort_orders(keys, S \ {i})} :
                        i \in {j \in S : keys[j] = m}}

\* slice::sort_unstable_by_key(|e| -e.score): the key closure runs only when
\* two elements are compared, that is when the slice has at least 2 elements
sort_panics(seq, checked) ==
    Len(seq) >= 2 /\ \E k \in 1..Len(seq) : sort_key(seq[k], checked) = None

\* the possible results of the sort when it does not panic
sort_unstable_by_key(seq, checked) ==
    IF Len(seq) < 2 THEN {seq}
    ELSE LET keys == [k \in 1..Len(seq) |-> sort_key(seq[k], checked)[1]]
         IN  {[k \in 1..Len(seq) |-> seq[o[k]]] :
                 o \in sort_orders(keys, 1..Len(seq))}

(***************************************************************************)
(* preprocess                                                              *)
(***************************************************************************)
\* crate::tui::markdown::preprocess: the cleaned markdown of a raw body
markdown_preprocess(body) == "cleaned(" \o body \o ")"

\* the closure of preprocess's outer map, for one question and one outcome
\* `answers` of sorting its answers
preprocess_question(q, answers) ==
    [q EXCEPT !.answers = [k \in 1..Len(answers) |->
                              [answers[k] EXCEPT !.body = markdown_preprocess(@)]],
              !.body = markdown_preprocess(@)]

preprocess_panics(qs, checked) ==
    \E k \in 1..Len(qs) : sort_panics(qs[k].answers, checked)

RECURSIVE preprocess_from(_, _, _)
preprocess_from(qs, checked, k) ==
    IF k > Len(qs) THEN {<<>>}
    ELSE {<<preprocess_question(qs[k], a)>> \o rest :
             a \in sort_unstable_by_key(qs[k].answers, checked),
             rest \in preprocess_from(qs, checked, k + 1)}

\* the possible values of preprocess(qs) when it does not panic
preprocess(qs, checked) == preprocess_from(qs, checked, 1)

(***************************************************************************)
(* parse_markdown and the tail of search_md                                *)
(***************************************************************************)
\* crate::tui::markdown::parse: the structured document of a cleaned body
markdown_parse(body) == [document |-> body]

\* mutant of parse_markdown: the answers are collected in reverse order
parse_markdown_reversed(qs) ==
    [i \in 1..Len(qs) |->
        [id |-> qs[i].id, score |-> qs[i].score, title |-> qs[i].title,
         body |-> markdown_parse(qs[i].body),
         answers |-> [k \in 1..Len(qs[i].answers) |->
             LET a == qs[i].answers[Len(qs[i].answers) + 1 - k]
             IN  [id |-> a.id, score |-> a.score,
                  is_accepted |-> a.is_accepted,
                  body |-> markdown_parse(a.body)]]]]

\* parse_markdown: both maps collect in the order of their input
parse_markdown(qs) ==
    [i \in 1..Len(qs) |->
        [id |-> qs[i].id, score |-> qs[i].score, title |-> qs[i].title,
         body |-> markdown_parse(qs[i].body),
         answers |-> [k \in 1..Len(qs[i].answers) |->
             LET a == qs[i].answers[k]
             IN  [id |-> a.id, score |-> a.score,
                  is_accepted |-> a.is_accepted,
                  body |-> markdown_parse(a.body)]]]]

\* search_md after `self.search().await`: `?` passes the error on
search_md_tail(result) ==
    IF result.tag = "Err" THEN result ELSE Ok(parse_markdown(result.val))

(***************************************************************************)
(* One per-site task: se_search_advanced_site / se_questions_site inside   *)
(* tokio::spawn.  resp is what the network gives for the request: an error *)
(* of send()/json(), or the decoded items.  The value is the output of the *)
(* JoinHandle, Result<Result<Vec<Question>>, JoinError>.                   *)
(***************************************************************************)
site_task(resp, checked) ==
    IF resp.tag = "Err" THEN {Ok(Err(ReqwestError(resp.err)))}
    ELSE IF preprocess_panics(resp.val, checked) THEN {Err(JoinError)}
    ELSE {Ok(Ok(qs)) : qs \in preprocess(resp.val, checked)}

(***************************************************************************)
(* The tail of both fan-outs, after `.collect::<Vec<_>>().await`           *)
(***************************************************************************)
\* `.map(|r| r.map_err(Error::from).and_then(|x| x))`
flatten_join(r) == IF r.tag = "Err" THEN Err(r.err) ELSE r.val

RECURSIVE collect_result_lenient(_, _, _)
\* mutant of collect_result: failed tasks are skipped, the rest is returned
collect_result_lenient(v, k, acc) ==
    IF k > Len(v) THEN Ok(acc)
    ELSE LET r == flatten_join(v[k])
         IN  IF r.tag = "Err" THEN collect_result_lenient(v, k + 1, acc)
             ELSE collect_result_lenient(v, k + 1, Append(acc, r.val))

RECURSIVE collect_result(_, _, _)
\* `.collect::<Result<Vec<Vec<_>>>>()`: the first error in v, else all values
collect_result(v, k, acc) ==
    IF k > Len(v) THEN Ok(acc)
    ELSE LET r == flatten_join(v[k])
         IN  IF r.tag = "Err" THEN r
             ELSE collect_result(v, k + 1, Append(acc, r.val))

\* mutant of flatten: only the questions of the first output are kept
flatten_first(vv) == IF vv = <<>> THEN <<>> ELSE Head(vv)

RECURSIVE flatten(_)
\* v.into_iter().flatten().collect()
flatten(vv) == IF vv = <<>> THEN <<>> ELSE Head(vv) \o flatten(Tail(vv))

\* mutant of merge_sorts: the list of a single site is sorted as well
merge_sorts_always(n_sites) == n_sites >= 1

\* `if self.config.sites.len() > 1`
merge_sorts(n_sites) == n_sites > 1

\* the tail of se_search_advanced: None when the question sort panics, else
\* the possible return values
se_search_advanced_tail(v, n_sites, checked) ==
    LET r == collect_result(v, 1, <<>>)
    IN  IF r.tag = "Err" THEN Some({r})
        ELSE LET qs == flatten(r.val)
             IN  IF ~merge_sorts(n_sites) THEN Some({Ok(qs)})
                 ELSE IF sort_panics(qs, checked) THEN None
                 ELSE Some({Ok(s) : s \in sort_unstable_by_key(qs, checked)})

\* the tail of se_questions: no sort
se_questions_tail(v) ==
    LET r == collect_result(v, 1, <<>>)
    IN  IF r.tag = "Err" THEN r ELSE Ok(flatten(r.val))

(***************************************************************************)
(* The tail of search_lucky, after the configuration is restored           *)
(***************************************************************************)
\* mutant of search_lucky_tail: questions without answers are skipped
search_lucky_tail_skipping(result) ==
    IF result.tag = "Err" THEN result
    ELSE LET with == SelectSeq(result.val, LAMBDA q : Len(q.answers) > 0)
         IN  IF Len(with) = 0 THEN Err(NoResults)
             ELSE Ok(with[1].answers[1].body)

search_lucky_tail(result) ==
    IF result.tag = "Err" THEN result
    ELSE IF Len(result.val) = 0 THEN Err(NoResults)
    ELSE IF Len(result.val[1].answers) = 0
         THEN Err(StackExchangeError("Received question with no answers"))
    ELSE Ok(result.val[1].answers[1].body)

\* Vec::truncate(n)
truncate(s, n) == IF Len(s) > n THEN SubSeq(s, 1, n) ELSE s

\* mutant of lucky_config: the limit is left as configured
lucky_config_keeps_limit(cfg) ==
    [cfg EXCEPT !.sites = IF ~cfg.duckduckgo THEN truncate(@, 1) ELSE @]

\* `self.config.limit = 1; if !duckduckgo { self.config.sites.truncate(1) }`
lucky_config(cfg) ==
    [cfg EXCEPT !.limit = 1,
                !.sites = IF ~cfg.duckduckgo THEN truncate(@, 1) ELSE @]

\* mutant of restore_config: the temporary configuration stays
restore_config_missing(current, original) == current

\* `self.config = original_config`
restore_config(current, original) == original

(***************************************************************************)
(* State                                                                   *)
(***************************************************************************)
VARIABLES
    overflow_checks, \* the build: TRUE panics on integer overflow, FALSE wraps
    server,          \* the network: site code -> response of the SE API
    ddg_response,    \* the network: response of DuckDuckGo
    sites_iter,      \* iteration order of the HashMap self.sites
    ids_iter,        \* iteration order of the HashMap `ids` (over all codes)
    request,         \* the caller's Config when the entry point is called
    config,          \* self.config
    sites,           \* self.sites: code -> url
    entry,           \* the entry point called: "search", "search_lucky" or
                     \* "search_md"
    pc,              \* position of the call
    original_config, \* local of search_lucky
    ddg_query,       \* None, or Some(site clauses) of the discovery request sent
    fanout,          \* "none", "se_search_advanced" or "se_questions"
    tasks,           \* the stream's items: the per-site requests, in order
    status,          \* per task: "queued", "running", "done", "yielded"
    outcome,         \* per task: None, or Some(output of its JoinHandle)
    v,               \* the Vec collected from buffer_unordered
    search_result,   \* None, or Some(value returned by search)
    lucky_result,    \* None, or Some(value returned by search_lucky)
    md_result        \* None, or Some(value returned by search_md)

vars == <<overflow_checks, server, ddg_response, sites_iter, ids_iter, request,
          config, sites, entry, pc, original_config, ddg_query, fanout, tasks,
          status, outcome, v, search_result, lucky_result, md_result>>

world == <<overflow_checks, server, ddg_response, sites_iter, ids_iter, request,
           sites>>

fan == <<fanout, tasks, status, outcome, v>>

(***************************************************************************)
(* The per-site requests and the buffer of buffer_unordered                *)
(***************************************************************************)
\* se_search_advanced_site(site, limit): GET search/advanced
search_advanced_request(site, limit) ==
    [endpoint |-> "search/advanced", site |-> site, ids |-> <<>>,
     pagesize |-> limit]

\* se_questions_site(site, ids): GET questions/{ids}
questions_request(site, ids) ==
    [endpoint |-> "questions", site |-> site, ids |-> ids,
     pagesize |-> Len(ids)]

\* mutant of ids_stream: one item, and so one task, for every id
ids_stream_per_id(ids) ==
    LET order == SelectSeq(ids_iter, LAMBDA c : c \in DOMAIN ids)
    IN  flatten([k \in 1..Len(order) |->
                   [j \in 1..Len(ids[order[k]]) |->
                       questions_request(order[k], <<ids[order[k]][j]>>)]])

\* futures::stream::iter(ids): the entries of the map in its iteration order
ids_stream(ids) ==
    LET order == SelectSeq(ids_iter, LAMBDA c : c \in DOMAIN ids)
    IN  [k \in 1..Len(order) |-> questions_request(order[k], ids[order[k]])]

Queued == {i \in 1..Len(tasks) : status[i] = "queued"}
\* the JoinHandles in the buffer: spawned and not yet yielded
InBuffer == {i \in 1..Len(tasks) : status[i] \in {"running", "done"}}
\* the per-site network operations started and not yet completed
InFlight == {i \in 1..Len(tasks) : status[i] = "running"}

\* mutant of buffer_has_room: one item too many
buffer_has_room_off_by_one(n) == n <= CONCURRENT_REQUESTS_LIMIT

\* buffer_unordered(n) takes the next item of the stream while this holds
buffer_has_room(n) == n < CONCURRENT_REQUESTS_LIMIT

\* mutant of stream_exhausted: the collection ends at the first failed output
stream_exhausted_or_failed ==
    \/ \A i \in 1..Len(tasks) : status[i] = "yielded"
    \/ \E i \in 1..Len(tasks) :
          status[i] = "yielded" /\ flatten_join(outcome[i][1]).tag = "Err"

\* `.collect::<Vec<_>>().await` is ready when buffer_unordered has yielded the
\* output of every item of the stream
stream_exhausted == \A i \in 1..Len(tasks) : status[i] = "yielded"

StartFanout(kind, items) ==
    /\ fanout' = kind
    /\ tasks' = items
    /\ status' = [k \in 1..Len(items) |-> "queued"]
    /\ outcome' = [k \in 1..Len(items) |-> None]
    /\ v' = <<>>
    /\ pc' = "fanout"

(***************************************************************************)
(* Actions                                                                 *)
(***************************************************************************)
\* the caller calls search()
CallSearch ==
    /\ pc = "idle"
    /\ entry' = "search"
    /\ pc' = "search"
    /\ UNCHANGED <<world, config, original_config, ddg_query, fan,
                   search_result, lucky_result, md_result>>

\* the caller calls search_md(): up to `self.search()`
CallSearchMd ==
    /\ pc = "idle"
    /\ entry' = "search_md"
    /\ pc' = "search"
    /\ UNCHANGED <<world, config, original_config, ddg_query, fan,
                   search_result, lucky_result, md_result>>

\* the caller calls search_lucky(): up to `self.search()`
CallLucky ==
    /\ pc = "idle"
    /\ entry' = "search_lucky"
    /\ original_config' = Some(config)
    /\ config' = lucky_config(config)
    /\ pc' = "search"
    /\ UNCHANGED <<world, ddg_query, fan, search_result, lucky_result, md_result>>

\* search(), direct branch: se_search_advanced(self.config.limit)
SearchDirect ==
    /\ pc = "search"
    /\ ~config.duckduckgo
    /\ StartFanout("se_search_advanced",
                   [k \in 1..Len(config.sites) |->
                       search_advanced_request(config.sites[k], config.limit)])
    /\ UNCHANGED <<world, config, entry, original_config, ddg_query,
                   search_result, lucky_result, md_result>>

\* search(), discovery branch: search_duckduck_go sends its request
SearchDuckDuckGo ==
    /\ pc = "search"
    /\ config.duckduckgo
    /\ ddg_query' = Some(duckduckgo_url(sites, sites_iter))
    /\ pc' = "ddg"
    /\ UNCHANGED <<world, config, entry, original_config, fan, search_result,
                   lucky_result, md_result>>

\* search_duckduck_go after `.send().await?.text().await?`
DdgResponse ==
    /\ pc = "ddg"
    /\ IF ddg_response.tag = "Err"
       THEN /\ search_result' = Some(Err(ReqwestError(ddg_response.err)))
            /\ pc' = "search_done"
            /\ UNCHANGED fan
       ELSE LET ids == parse_questions_from_ddg_html(ddg_response.val, sites,
                                                     sites_iter, config.limit)
            IN  IF ids.tag = "Err"
                THEN /\ search_result' = Some(ids)
                     /\ pc' = "search_done"
                     /\ UNCHANGED fan
                ELSE /\ StartFanout("se_questions", ids_stream(ids.val))
                     /\ UNCHANGED search_result
    /\ UNCHANGED <<world, config, entry, original_config, ddg_query,
                   lucky_result, md_result>>

\* buffer_unordered pulls the next item: the map closure spawns its task
Spawn ==
    /\ pc = "fanout"
    /\ Queued # {}
    /\ buffer_has_room(Cardinality(InBuffer))
    /\ LET i == SetMin(Queued)
       IN  status' = [status EXCEPT ![i] = "running"]
    /\ UNCHANGED <<world, config, entry, pc, original_config, ddg_query,
                   fanout, tasks, outcome, v, search_result, lucky_result, md_result>>

\* the spawned task i runs to its end
TaskComplete(i) ==
    /\ pc = "fanout"
    /\ status[i] = "running"
    /\ \E out \in site_task(server[tasks[i].site], overflow_checks) :
           outcome' = [outcome EXCEPT ![i] = Some(out)]
    /\ status' = [status EXCEPT ![i] = "done"]
    /\ UNCHANGED <<world, config, entry, pc, original_config, ddg_query,
                   fanout, tasks, v, search_result, lucky_result, md_result>>

\* buffer_unordered yields the output of a finished JoinHandle; it polls its
\* buffer only after filling it from the stream
Yield(i) ==
    /\ pc = "fanout"
    /\ status[i] = "done"
    /\ Queued = {} \/ ~buffer_has_room(Cardinality(InBuffer))
    /\ v' = Append(v, outcome[i][1])
    /\ status' = [status EXCEPT ![i] = "yielded"]
    /\ UNCHANGED <<world, config, entry, pc, original_config, ddg_query,
                   fanout, tasks, outcome, search_result, lucky_result, md_result>>

\* the stream is exhausted: the code after `.collect::<Vec<_>>().await`
FanoutFinish ==
    /\ pc = "fanout"
    /\ stream_exhausted
    /\ IF fanout = "se_questions"
       THEN /\ search_result' = Some(se_questions_tail(v))
            /\ pc' = "search_done"
       ELSE LET t == se_search_advanced_tail(v, Len(config.sites),
                                             overflow_checks)
            IN  IF t = None
                THEN /\ pc' = "panicked"
                     /\ UNCHANGED search_result
                ELSE /\ \E r \in t[1] : search_result' = Some(r)
                     /\ pc' = "search_done"
    /\ UNCHANGED <<world, config, entry, original_config, ddg_query, fan,
                   lucky_result, md_result>>

\* search() returns to the caller
SearchReturn ==
    /\ pc = "search_done"
    /\ entry = "search"
    /\ pc' = "returned"
    /\ UNCHANGED <<world, config, entry, original_config, ddg_query, fan,
                   search_result, lucky_result, md_result>>

\* search_lucky after `self.search().await`
LuckyReturn ==
    /\ pc = "search_done"
    /\ entry = "search_lucky"
    /\ config' = restore_config(config, original_config[1])
    /\ lucky_result' = Some(search_lucky_tail(search_result[1]))
    /\ pc' = "returned"
    /\ UNCHANGED <<world, entry, original_config, ddg_query, fan,
                   search_result, md_result>>

\* search_md after `self.search().await?`
SearchMdReturn ==
    /\ pc = "search_done"
    /\ entry = "search_md"
    /\ md_result' = Some(search_md_tail(search_result[1]))
    /\ pc' = "returned"
    /\ UNCHANGED <<world, config, entry, original_config, ddg_query, fan,
                   search_result, lucky_result>>

Next ==
    \/ CallSearch
    \/ CallLucky
    \/ CallSearchMd
    \/ SearchDirect
    \/ SearchDuckDuckGo
    \/ DdgResponse
    \/ Spawn
    \/ \E i \in 1..Len(tasks) : TaskComplete(i)
    \/ \E i \in 1..Len(tasks) : Yield(i)
    \/ FanoutFinish
    \/ SearchReturn
    \/ LuckyReturn
    \/ SearchMdReturn

(***************************************************************************)
(* Inputs: the site directory, wire responses, discovery documents         *)
(***************************************************************************)
WideSites == CONCURRENT_REQUESTS_LIMIT + ExtraSites

\* LocalStorage.sites: three named sites (the url of "so" is a suffix of the
\* url of "meta"; the url of "au" ends in a slash), then the sites s1, s2, ..
Directory ==
    << [api_site_parameter |-> "so", site_url |-> "so.com"],
       [api_site_parameter |-> "au", site_url |-> "au.com/"],
       [api_site_parameter |-> "meta", site_url |-> "meta.so.com"] >>
    \o [k \in 1..WideSites |->
          [api_site_parameter |-> "s" \o ToString(k),
           site_url |-> "s" \o ToString(k) \o ".com"]]

SiteNo(code) ==
    CHOOSE k \in 1..Len(Directory) : Directory[k].api_site_parameter = code

\* the first n codes of the directory from position `from` on
Codes(from, n) == [k \in 1..n |-> Directory[from + k - 1].api_site_parameter]

Range(f) == {f[x] : x \in DOMAIN f}

Reverse(s) == [k \in 1..Len(s) |-> s[Len(s) + 1 - k]]

Permutations_(s) ==
    {[k \in 1..Len(s) |-> s[p[k]]] :
        p \in {q \in [1..Len(s) -> 1..Len(s)] : Range(q) = 1..Len(s)}}

\* sequences over S of length lo..hi
Seqs(S, lo, hi) == UNION {[1..k -> S] : k \in lo..hi}

\* an answer and a question as deserialized from the wire
wire_answer(id, score, k) ==
    [id |-> id, score |-> score, body |-> "a" \o ToString(id),
     is_accepted |-> (k = 1)]

wire_question(id, score, ascores) ==
    [id |-> id, score |-> score, title |-> "t" \o ToString(id),
     body |-> "q" \o ToString(id),
     answers |-> [k \in 1..Len(ascores) |->
                    wire_answer(10 * id + k, ascores[k], k)]]

\* a response shape is an error of the request, or Ok of a sequence of
\* <<question score, answer scores>>; the site gives the ids
wire_response(site_no, shape) ==
    IF shape.tag = "Err" THEN shape
    ELSE Ok([k \in 1..Len(shape.val) |->
               wire_question(10 * site_no + k, shape.val[k][1],
                             shape.val[k][2])])

wire_server(codes, shapes) ==
    [c \in Range(codes) |-> wire_response(SiteNo(c), shapes[c])]

RequestErrors == {Err("send"), Err("decode")}

Config(limit, site_codes, duckduckgo, api_key) ==
    [limit |-> limit, sites |-> site_codes, duckduckgo |-> duckduckgo,
     api_key |-> api_key]

\* the state when the entry point is called, for one choice of the inputs
InitWorld(checked, srv, ddg, siter, iiter, cfg) ==
    /\ overflow_checks = checked
    /\ server = srv
    /\ ddg_response = ddg
    /\ sites_iter = siter
    /\ ids_iter = iiter
    /\ request = cfg
    /\ config = cfg
    /\ sites = get_urls(Directory, cfg.sites)
    /\ entry = "none"
    /\ pc = "idle"
    /\ original_config = None
    /\ ddg_query = None
    /\ fanout = "none"
    /\ tasks = <<>>
    /\ status = <<>>
    /\ outcome = <<>>
    /\ v = <<>>
    /\ search_result = None
    /\ lucky_result = None
    /\ md_result = None

QScores == {MinI32, 0, 7, MaxI32}
AScores == {MinI32, 0, 3}

\* A1: direct search over 0..MaxSites sites; each site fails or returns at
\* most one question, its score any of QScores
RankShapes1 ==
    RequestErrors \cup {Ok(<<>>)} \cup {Ok(<< <<sc, <<1>>>> >>) : sc \in QScores}

InitRank1 ==
    \E n \in 0..MaxSites, c \in BOOLEAN :
        \E sh \in [Range(Codes(1, n)) -> RankShapes1] :
            InitWorld(c, wire_server(Codes(1, n), sh), Err("send"),
                      Codes(1, n), Codes(1, n),
                      Config(3, Codes(1, n), FALSE, None))

\* A2: direct search over 1 or 2 sites returning 2..MaxQuestions questions
RankShapes2 ==
    {Ok([k \in 1..Len(scs) |-> <<scs[k], <<1>>>>]) :
        scs \in Seqs({MinI32, 0, 7}, 2, MaxQuestions)}

InitRank2 ==
    \E n \in 1..2, c \in BOOLEAN :
        \E sh \in [Range(Codes(1, n)) -> RankShapes2] :
            InitWorld(c, wire_server(Codes(1, n), sh), Err("send"),
                      Codes(1, n), Codes(1, n),
                      Config(2, Codes(1, n), FALSE, None))

\* B: one site, direct or through discovery, returning up to 2 questions with
\* 0..MaxAnswers answers each, their scores any of AScores
AnswerShapes ==
    RequestErrors
    \cup {Ok([k \in 1..Len(as) |-> <<5, as[k]>>]) :
             as \in Seqs(Seqs(AScores, 0, MaxAnswers), 0, 2)}

InitAnswers ==
    \E c \in BOOLEAN, d \in BOOLEAN, sh \in AnswerShapes :
        InitWorld(c, wire_server(<<"so">>, [x \in {"so"} |-> sh]),
                  Ok(<<Some("/l/?uddg=https://so.com/questions/11/exit-vim")>>),
                  <<"so">>, <<"so">>, Config(2, <<"so">>, d, Some("key")))

\* B2: discovery over two sites with one candidate each; each fetch fails or
\* returns one question, or two with the lower score first; both iteration
\* orders of the candidate map
MixedShapes ==
    RequestErrors \cup {Ok(<< <<5, <<3, 3>>>> >>),
                        Ok(<< <<0, <<>>>>, <<7, <<1>>>> >>)}

InitMixed ==
    \E sh \in [{"so", "au"} -> MixedShapes],
       ii \in Permutations_(<<"so", "au">>) :
        InitWorld(FALSE, wire_server(<<"so", "au">>, sh),
                  Ok(<< Some("/l/?uddg=https://so.com/questions/11/exit-vim"),
                        Some("/l/?uddg=https://au.com/questions/24/close-vim") >>),
                  <<"so", "au">>, ii, Config(2, <<"so", "au">>, TRUE, None))

Init == InitRank1 \/ InitRank2 \/ InitAnswers \/ InitMixed

Spec == Init /\ [][Next]_vars

\* C: discovery documents of up to MaxAnchors organic anchors.  The hrefs: no
\* href; a percent-encoded link to "so"; a link to "au"; a link to "meta",
\* which also contains the fragment of "so"; a link outside the sites
Hrefs ==
    { None,
      Some("/l/?kh=-1&uddg=https%3A%2F%2Fso.com%2Fquestions%2F11%2Fexit-vim"),
      Some("/l/?uddg=https://au.com/questions/24/close-vim"),
      Some("/l/?uddg=https://meta.so.com/questions/7/faq"),
      Some("/l/?uddg=https://example.org/questions/9/other") }

Documents == Seqs(Hrefs, 0, MaxAnchors)

\* documents with a plain link, an id that no '/' follows, an empty id, and
\* escapes that are incomplete or in lower case
EdgeDocuments ==
    { << Some("/l/?uddg=https://so.com/questions/12/quit-vi"),
         Some("/l/?uddg=https://so.com/questions/12/quit-vi") >>,
      << Some("/l/?uddg=https://so.com/questions/13") >>,
      << Some("/l/?uddg=https://so.com/questions//x") >>,
      << Some("https://so.com/questions/14/%zz%2") >>,
      << Some("https%3a%2f%2Fau.com/%2Fquestions/15/a/16/") >> }

ParseLimits == {0, 1, 2, MaxU16}

\* the configured sites of the discovery searches
ParseSiteLists == { <<>>, <<"so">>, <<"so", "au">>, <<"meta", "so">> }

ParseShapes(codes) ==
    [c \in Range(codes) |-> Ok(<< <<1, <<1>>>> >>)]

\* every document, limit and iteration order of self.sites (the iteration
\* order of the candidate map, which parsing does not depend on, is varied
\* by InitMixed and InitWide)
InitDocuments ==
    \E codes \in ParseSiteLists, l \in ParseLimits :
        \E doc \in Documents \cup EdgeDocuments, si \in Permutations_(codes) :
            InitWorld(FALSE, wire_server(codes, ParseShapes(codes)), Ok(doc),
                      si, codes, Config(l, codes, TRUE, None))

\* a failing or empty discovery response, and direct searches of these sites
InitDiscoveryEdge ==
    \E codes \in ParseSiteLists, d \in BOOLEAN,
       ddg \in {Err("send"), Ok(<<>>)} :
        InitWorld(FALSE, wire_server(codes, ParseShapes(codes)), ddg, codes,
                  codes, Config(2, codes, d, None))

InitParse == InitDocuments \/ InitDiscoveryEdge

SpecParse == InitParse /\ [][Next]_vars

\* E: the inputs of question_url_to_id: documents of a single link, every
\* list of sites and iteration order of self.sites
UrlDocuments ==
    {<<h>> : h \in Hrefs \ {None}} \cup {d \in EdgeDocuments : Len(d) = 1}

InitUrls ==
    \E codes \in ParseSiteLists, doc \in UrlDocuments :
        \E si \in Permutations_(codes) :
            InitWorld(FALSE, wire_server(codes, ParseShapes(codes)), Ok(doc),
                      si, codes, Config(2, codes, TRUE, None))

SpecUrl == (InitUrls \/ InitDiscoveryEdge) /\ [][Next]_vars

\* D: fan-outs wider than the concurrency limit, direct and through
\* discovery; every site answers with no items, or the last one fails
WideCodes == Codes(4, WideSites)

WideDocument ==
    [k \in 1..WideSites |->
        Some("/l/?uddg=https://s" \o ToString(k) \o ".com/questions/"
             \o ToString(k) \o "/x")]

WideShapes ==
    { [c \in Range(WideCodes) |-> Ok(<<>>)],
      [c \in Range(WideCodes) |->
          IF c = WideCodes[WideSites] THEN Err("send") ELSE Ok(<<>>)] }

InitWide ==
    \E sh \in WideShapes, d \in BOOLEAN :
        InitWorld(FALSE, wire_server(WideCodes, sh), Ok(WideDocument),
                  WideCodes, Reverse(WideCodes),
                  Config(WideSites, WideCodes, d, None))

InitFanEdge ==
    \E ddg \in {Err("send"), Ok(<<None>>)} :
        InitWorld(FALSE, wire_server(<<"so">>, ParseShapes(<<"so">>)), ddg,
                  <<"so">>, <<"so">>, Config(2, <<"so">>, TRUE, None))

InitFan == InitWide \/ InitFanEdge

SpecFan == InitFan /\ [][Next]_vars

\* Progress of a fan-out: the runtime polls the future of search whenever it
\* can go on (tokio schedules every spawned task and wakes the stream when a
\* task completes), and a per-site network operation that was started
\* completes.  Nothing is assumed of the caller or of the discovery request.
Progress ==
    WF_vars(\/ Spawn
            \/ \E i \in 1..Len(tasks) : TaskComplete(i)
            \/ \E i \in 1..Len(tasks) : Yield(i)
            \/ FanoutFinish
            \/ SearchReturn
            \/ LuckyReturn
            \/ SearchMdReturn)

SpecFanLive == InitFan /\ [][Next]_vars /\ Progress

SpecLive == Init /\ [][Next]_vars /\ Progress

(***************************************************************************)
(* Properties                                                              *)
(***************************************************************************)
\* the tasks of the fan-out that ended in an error, as search sees them
Failed ==
    {i \in 1..Len(tasks) :
        outcome[i] # None /\ flatten_join(outcome[i][1]).tag = "Err"}

Succeeded ==
    {i \in 1..Len(tasks) :
        outcome[i] # None /\ flatten_join(outcome[i][1]).tag = "Ok"}

NonIncreasing(seq) ==
    \A k \in 1..(Len(seq) - 1) : seq[k].score >= seq[k + 1].score

RECURSIVE SumLen(_, _)
\* the number of thread ids carried by the tasks k..Len(ts)
SumLen(ts, k) == IF k > Len(ts) THEN 0 ELSE Len(ts[k].ids) + SumLen(ts, k + 1)

\* C1: when search returns after a fan-out (direct or discovery) in which at
\* least one per-site task failed, it returns an error, and that error is the
\* error of one of the failed tasks; it never returns a list.
C1_FailFast ==
    (search_result # None /\ fanout # "none" /\ Failed # {})
        => /\ search_result[1].tag = "Err"
           /\ \E i \in Failed : search_result[1] = flatten_join(outcome[i][1])

\* C1 witness: a discovery fan-out of two tasks, one failed and one succeeded
\* with a question, has returned an error.
C1_Witness ==
    /\ search_result # None
    /\ fanout = "se_questions"
    /\ Len(tasks) = 2
    /\ Failed # {}
    /\ \E i \in Succeeded : Len(flatten_join(outcome[i][1]).val) > 0
    /\ search_result[1].tag = "Err"

\* C2: at every moment of a fan-out the number of per-site network operations
\* started and not yet completed is at most 8, however many sites there are.
C2_ConcurrencyCeiling == Cardinality(InFlight) <= 8

\* C2 witness: a discovery fan-out with more than 8 tasks has 8 operations in
\* flight and a task still waiting in the stream.
C2_Witness ==
    /\ fanout = "se_questions"
    /\ Len(tasks) > 8
    /\ Cardinality(InFlight) = 8
    /\ Queued # {}

\* C3 (as claimed): whenever a direct search over more than one site returns a
\* list, the scores of the list are non-increasing, for every i32 score.
C3_QuestionsRanked ==
    (/\ search_result # None
     /\ fanout = "se_search_advanced"
     /\ Len(tasks) > 1
     /\ search_result[1].tag = "Ok")
        => NonIncreasing(search_result[1].val)

\* C3, away from the overflow: the same holds when no returned question has the
\* score i32::MIN.
C3_QuestionsRankedAboveMin ==
    (/\ search_result # None
     /\ fanout = "se_search_advanced"
     /\ Len(tasks) > 1
     /\ search_result[1].tag = "Ok"
     /\ \A k \in 1..Len(search_result[1].val) :
            search_result[1].val[k].score # MinI32)
        => NonIncreasing(search_result[1].val)

\* C4 (as claimed): in every question returned by search, direct or through
\* discovery, the answers are ordered by non-increasing score.
C4_AnswersRanked ==
    (search_result # None /\ search_result[1].tag = "Ok")
        => \A k \in 1..Len(search_result[1].val) :
               NonIncreasing(search_result[1].val[k].answers)

\* C4, away from the overflow: the answers of a returned question are ranked
\* when none of them has the score i32::MIN.
C4_AnswersRankedAboveMin ==
    (search_result # None /\ search_result[1].tag = "Ok")
        => \A k \in 1..Len(search_result[1].val) :
               LET as == search_result[1].val[k].answers
               IN  (\A j \in 1..Len(as) : as[j].score # MinI32)
                       => NonIncreasing(as)

\* C5: when search_lucky returns: a failed search gives that same error; an
\* empty list gives NoResults; a first question without answers gives the
\* StackExchange "no answers" error even if a later question has answers.
\* The three errors are pairwise different and none of the three is a string.
C5_LuckyErrors ==
    lucky_result # None =>
        LET r == search_result[1]
            l == lucky_result[1]
        IN  /\ r.tag = "Err" =>
                /\ l = r
                /\ r.err.kind \notin {"NoResults", "StackExchange"}
            /\ (r.tag = "Ok" /\ Len(r.val) = 0) => l = Err(NoResults)
            /\ (r.tag = "Ok" /\ Len(r.val) > 0 /\ Len(r.val[1].answers) = 0) =>
                /\ l.tag = "Err"
                /\ l.err.kind = "StackExchange"
                /\ l.err # NoResults

\* C5 witness: search_lucky has returned for a list whose first question has
\* no answers while its second question has one.
C5_Witness ==
    /\ lucky_result # None
    /\ search_result[1].tag = "Ok"
    /\ Len(search_result[1].val) = 2
    /\ Len(search_result[1].val[1].answers) = 0
    /\ Len(search_result[1].val[2].answers) > 0

\* C6 (as claimed): when the list is not empty and its first question has an
\* answer, search_lucky returns the body of an answer of the first question
\* whose score is the maximum over that question's answers.
C6_LuckyTopAnswer ==
    (/\ lucky_result # None
     /\ search_result[1].tag = "Ok"
     /\ Len(search_result[1].val) > 0
     /\ Len(search_result[1].val[1].answers) > 0)
        => LET as == search_result[1].val[1].answers
           IN  /\ lucky_result[1].tag = "Ok"
               /\ \E k \in 1..Len(as) :
                     /\ lucky_result[1].val = as[k].body
                     /\ \A j \in 1..Len(as) : as[k].score >= as[j].score

\* C6, in every case: search_lucky returns the body of the first answer of the
\* first question of the list that search returned.
C6_LuckyFirstAnswer ==
    (/\ lucky_result # None
     /\ search_result[1].tag = "Ok"
     /\ Len(search_result[1].val) > 0
     /\ Len(search_result[1].val[1].answers) > 0)
        => lucky_result[1] = Ok(search_result[1].val[1].answers[1].body)

\* C7: whenever search_lucky has returned, with a string or with any error,
\* the configuration equals the configuration before the call.
C7_LuckyRestoresConfig ==
    (entry = "search_lucky" /\ pc = "returned") => config = request

\* C7 witness: search_lucky has returned for a request with limit other than
\* 1 and two sites in direct mode, which the call had changed temporarily.
C7_Witness ==
    /\ entry = "search_lucky"
    /\ pc = "returned"
    /\ request.limit # 1
    /\ Len(request.sites) = 2
    /\ ~request.duckduckgo
    /\ Len(tasks) = 1

\* C8: while search_lucky runs its search the limit is 1.  In direct mode at
\* most one task exists, for the first configured site with page size 1, and
\* with no site configured no task exists and the call ends in NoResults.  In
\* discovery mode the configured sites are not truncated, the discovery query
\* names every configured site, and at most one fetch task exists.
C8_LuckyRequest ==
    entry = "search_lucky" =>
        /\ pc # "returned" => config.limit = 1
        /\ fanout = "se_search_advanced" =>
              /\ Len(tasks) <= 1
              /\ \A k \in 1..Len(tasks) :
                    /\ tasks[k].site = request.sites[1]
                    /\ tasks[k].pagesize = 1
              /\ Len(request.sites) = 0 => Len(tasks) = 0
        /\ (pc = "returned" /\ ~request.duckduckgo /\ Len(request.sites) = 0)
              => lucky_result = Some(Err(NoResults))
        /\ (request.duckduckgo /\ pc # "returned") =>
              config.sites = request.sites
        /\ ddg_query # None =>
              \A k \in 1..Len(request.sites) :
                  \E j \in 1..Len(ddg_query[1]) :
                      ddg_query[1][j] = "site:" \o sites[request.sites[k]]
        /\ fanout = "se_questions" =>
              Len(tasks) <= 1 /\ \A k \in 1..Len(tasks) : tasks[k].pagesize = 1

\* C8 witness: search_lucky in discovery mode over two configured sites, for a
\* document with at least two anchors, has started its single fetch task.
C8_Witness ==
    /\ entry = "search_lucky"
    /\ fanout = "se_questions"
    /\ Len(request.sites) = 2
    /\ Len(ddg_query[1]) = 2
    /\ Len(ddg_response.val) >= 2
    /\ Len(tasks) = 1
    /\ status[1] = "running"

\* C9 (as claimed): the thread ids of a returned candidate set, summed over
\* all sites, are at most limit, for every limit including 0.
C9_CandidateCap ==
    fanout = "se_questions" => SumLen(tasks, 1) <= config.limit

\* C9, for limits of at least 1, and with limit 0 at most one candidate.
C9_CandidateCapFromOne ==
    fanout = "se_questions" =>
        SumLen(tasks, 1) <= (IF config.limit = 0 THEN 1 ELSE config.limit)

\* C10: a document without organic anchors makes the search fail with the
\* scraping error "DuckDuckGo blocked this request", which is neither a
\* network nor a JSON error; every candidate set that parsing returns has at
\* least one site, and every site of it has at least one id.
C10_Blocked ==
    /\ (/\ ddg_response.tag = "Ok"
        /\ ddg_response.val = <<>>
        /\ ddg_query # None
        /\ pc # "ddg")
          => /\ search_result =
                  Some(Err(ScrapingError("DuckDuckGo blocked this request")))
             /\ search_result[1].err.kind # "Reqwest"
             /\ fanout = "none"
    /\ fanout = "se_questions" =>
          /\ Len(tasks) >= 1
          /\ \A k \in 1..Len(tasks) : Len(tasks[k].ids) >= 1

\* C10 witness: a search has failed as blocked on a document without anchors.
C10_Witness ==
    /\ ddg_response.tag = "Ok"
    /\ ddg_response.val = <<>>
    /\ search_result # None
    /\ search_result[1].tag = "Err"
    /\ search_result[1].err.msg = "DuckDuckGo blocked this request"

\* for every anchor k of doc and configured site c, what question_url_to_id
\* gives for the decoded link of the anchor and the url of the site (None for
\* an anchor without href)
IdTable(doc) ==
    CHOOSE t \in {[k \in 1..Len(doc) |->
                    CHOOSE r \in {[c \in DOMAIN sites |->
                        IF doc[k] = None THEN None
                        ELSE question_url_to_id(sites[c],
                                 percent_decode_str(doc[k][1]))]} : TRUE]} : TRUE

\* the attributions of the first n anchors to configured sites, ids being the
\* IdTable of the document: each anchor goes to a site whose
\* '<url>/questions/' fragment its link contains
Attributions(ids, n) ==
    {a \in [1..n -> DOMAIN sites] : \A k \in 1..n : ids[k][a[k]] # None}

RECURSIVE IdsOf(_, _, _, _)
\* the ids of the anchors k..Len(a) attributed to site c, in document order
IdsOf(ids, a, c, k) ==
    IF k > Len(a) THEN <<>>
    ELSE IF a[k] = c THEN <<ids[k][c][1]>> \o IdsOf(ids, a, c, k + 1)
         ELSE IdsOf(ids, a, c, k + 1)

\* C11: when parsing has succeeded and handed its candidate set to the
\* fetches (the tasks carry it unchanged from then on), the n anchors it
\* examined are the first n of the document, n being the total number of ids
\* (so every occurrence counts toward the limit); each of them gave exactly
\* one id to exactly one matching site; every site's list holds the ids of
\* its anchors in document order, repeated ids included; and parsing stopped
\* only at the end of the document or when n reached the limit.
C11_ParsingOrder ==
    (pc = "fanout" /\ fanout = "se_questions" /\ Queued = 1..Len(tasks)) =>
        LET doc == ddg_response.val
            ids == IdTable(doc)
            n == SumLen(tasks, 1)
        IN  /\ n <= Len(doc)
            /\ n = Len(doc) \/ n >= config.limit
            /\ \E a \in Attributions(ids, n) :
                  /\ \A i \in 1..Len(tasks) :
                        tasks[i].ids = IdsOf(ids, a, tasks[i].site, 1)
                  /\ \A c \in DOMAIN sites :
                        Cardinality({i \in 1..Len(tasks) : tasks[i].site = c})
                            = (IF \E k \in 1..n : a[k] = c THEN 1 ELSE 0)

\* C11 witness: parsing has succeeded on a document of three anchors in which
\* the same question of one site occurs before and after a question of
\* another site.
C11_Witness ==
    /\ pc = "fanout"
    /\ fanout = "se_questions"
    /\ Len(ddg_response.val) = 3
    /\ ddg_response.val[1] = ddg_response.val[3]
    /\ Len(tasks) = 2
    /\ \E i \in 1..2 : Len(tasks[i].ids) = 2 /\ tasks[i].ids[1] = tasks[i].ids[2]

\* search_duckduck_go has parsed the document and not yet gone further
JustParsed ==
    /\ ddg_query # None
    /\ ddg_response.tag = "Ok"
    /\ \/ pc = "fanout" /\ Queued = 1..Len(tasks)
       \/ pc = "search_done" /\ fanout = "none"

\* r is what the claim says of question_url_to_id(site_url, input), stated
\* with positions instead of searches
IsIdBetween(site_url, input, r) ==
    \E n \in 0..Len(site_url) :
        /\ n = 0 \/ Char(site_url, n) # "/"
        /\ \A j \in (n + 1)..Len(site_url) : Char(site_url, j) = "/"
        /\ LET frag == SubSeq(site_url, 1, n) \o "/questions/"
               first == Char(frag, 1)
               occ == {p \in 1..(Len(input) - Len(frag) + 1) :
                          /\ Char(input, p) = first
                          /\ SubSeq(input, p, p + Len(frag) - 1) = frag}
           IN  IF occ = {} THEN r = None
               ELSE LET start == SetMin(occ) + Len(frag)
                        slashes == {e \in start..Len(input) :
                                       Char(input, e) = "/"}
                    IN  IF slashes = {} THEN r = None
                        ELSE r = Some(SubSeq(input, start,
                                             SetMin(slashes) - 1))

\* C12: for every configured site url and every link of the parsed document,
\* question_url_to_id gives the text between the first occurrence of
\* '<url without trailing slashes>/questions/' and the next '/', and none
\* when the fragment does not occur or no '/' follows it.
C12_UrlToId ==
    JustParsed =>
        \A k \in 1..Len(ddg_response.val), c \in DOMAIN sites :
            ddg_response.val[k] # None =>
                LET input == percent_decode_str(ddg_response.val[k][1])
                IN  IsIdBetween(sites[c], input,
                                question_url_to_id(sites[c], input))

\* C12 witness: a parsed document has a link that gives the id "24" for a
\* site whose url ends in a slash and none for another configured site.
C12_Witness ==
    /\ JustParsed
    /\ DOMAIN sites = {"so", "au"}
    /\ \E k \in 1..Len(ddg_response.val) :
          /\ ddg_response.val[k] # None
          /\ LET input == percent_decode_str(ddg_response.val[k][1])
             IN  /\ question_url_to_id(sites["au"], input) = Some("24")
                 /\ question_url_to_id(sites["so"], input) = None

\* what identifies a question of a response, body and answers left aside
Header(q) == [id |-> q.id, score |-> q.score, title |-> q.title]

Headers(qs) == [k \in 1..Len(qs) |-> Header(qs[k])]

\* C13: when a direct search over exactly one site returns a list, the list
\* has the questions of that site's response in the order of the response,
\* whatever their scores.
C13_SingleSiteNativeOrder ==
    (/\ search_result # None
     /\ fanout = "se_search_advanced"
     /\ Len(tasks) = 1
     /\ search_result[1].tag = "Ok")
        => Headers(search_result[1].val) = Headers(server[tasks[1].site].val)

\* C13 witness: a direct search over one site has returned two questions, the
\* first with a lower score than the second.
C13_Witness ==
    /\ search_result # None
    /\ fanout = "se_search_advanced"
    /\ Len(tasks) = 1
    /\ search_result[1].tag = "Ok"
    /\ Len(search_result[1].val) = 2
    /\ search_result[1].val[1].score < search_result[1].val[2].score

\* the positions of the anchors of doc whose href matches a configured site
Matching(doc) ==
    LET ids == IdTable(doc)
    IN  {k \in 1..Len(doc) : \E c \in DOMAIN sites : ids[k][c] # None}

\* the number of anchors among the first k that match, m being the matching
\* positions
MatchCount(m, k) == Cardinality(m \cap 1..k)

\* the position of the anchor at which the candidate count reaches the limit
\* in a document of len anchors, len when it never does
LimitAnchor(m, len, limit) ==
    LET at == {k \in 1..len : MatchCount(m, k) >= limit}
    IN  IF at = {} THEN len ELSE SetMin(at)

ScrapingMessages ==
    {"Anchor with no href", "Duckduckgo returned results outside of SE network"}

\* C14: when the document has been parsed: if an anchor up to the one at
\* which the count reaches the limit has no href or matches no configured
\* site, the search has failed with a scraping error and no fetch exists,
\* whatever candidates earlier anchors gave; if there is no such anchor,
\* parsing has not failed with such an error, whatever the anchors after the
\* limit are.
C14_HardScrapingErrors ==
    JustParsed =>
        LET doc == ddg_response.val
            m == Matching(doc)
            last == LimitAnchor(m, Len(doc), config.limit)
        IN  IF \E k \in 1..last : k \notin m
            THEN /\ fanout = "none"
                 /\ search_result # None
                 /\ search_result[1].tag = "Err"
                 /\ search_result[1].err.kind = "ScrapingError"
                 /\ search_result[1].err.msg \in ScrapingMessages
            ELSE search_result # None =>
                    search_result[1].err.msg \notin ScrapingMessages

\* C14 witness: the search has failed with a scraping error on a document
\* whose first anchor matches a site and whose second anchor does not, the
\* limit being larger than 1.
C14_Witness ==
    /\ JustParsed
    /\ entry = "search"
    /\ config.limit >= 2
    /\ Len(ddg_response.val) >= 2
    /\ 1 \in Matching(ddg_response.val)
    /\ 2 \notin Matching(ddg_response.val)
    /\ search_result # None
    /\ search_result[1].tag = "Err"
    /\ search_result[1].err.kind = "ScrapingError"

\* C14 second witness: parsing has succeeded with limit 1 on a document whose
\* second anchor has no href.
C14_WitnessAfterLimit ==
    /\ JustParsed
    /\ entry = "search"
    /\ config.limit = 1
    /\ Len(ddg_response.val) >= 2
    /\ ddg_response.val[2] = None
    /\ pc = "fanout"

\* the responses of the tasks ts[k..], concatenated in the order of ts
RECURSIVE ResponsesOf(_, _)
ResponsesOf(ts, k) ==
    IF k > Len(ts) THEN <<>>
    ELSE server[ts[k].site].val \o ResponsesOf(ts, k + 1)

\* C15 (as claimed): when a discovery search returns a list, the list is the
\* concatenation of the per-site responses in the order in which the sites of
\* the candidate set were iterated, whatever the order of completion.
C15_DiscoveryMergeOrder ==
    (/\ search_result # None
     /\ fanout = "se_questions"
     /\ search_result[1].tag = "Ok")
        => Headers(search_result[1].val) = Headers(ResponsesOf(tasks, 1))

\* C15, what holds in every case: the list is the concatenation of the
\* per-site responses, each contiguous and in its own order, the groups in
\* some order of the tasks; nothing is sorted by score.
C15_DiscoveryMergeGrouped ==
    (/\ search_result # None
     /\ fanout = "se_questions"
     /\ search_result[1].tag = "Ok")
        => \E o \in Permutations_(tasks) :
               Headers(search_result[1].val) = Headers(ResponsesOf(o, 1))

\* C15: a discovery search over two sites has returned the questions of both,
\* those of the site iterated second first.
C15_CompletionOrder ==
    /\ search_result # None
    /\ fanout = "se_questions"
    /\ Len(tasks) = 2
    /\ search_result[1].tag = "Ok"
    /\ Len(search_result[1].val) >= 2
    /\ search_result[1].val[1].id = server[tasks[2].site].val[1].id

\* the position in seq of the element with the given id
Pos(seq, id) == CHOOSE k \in 1..Len(seq) : seq[k].id = id

\* elements of equal score are in `sorted` in the same relative order as in
\* `before`
TiesKeepOrder(before, sorted) ==
    \A j, k \in 1..Len(sorted) :
        (j < k /\ sorted[j].score = sorted[k].score)
            => Pos(before, sorted[j].id) < Pos(before, sorted[k].id)

\* the question with the given id as some site sent it
WireQuestion(id) ==
    CHOOSE q \in UNION {Range(server[c].val) :
                          c \in {d \in DOMAIN server : server[d].tag = "Ok"}} :
        q.id = id

\* C16 (as claimed): when search returns a list, the answers of equal score
\* of every question are in the relative order of the wire response, and in
\* a direct search over several sites the questions of equal score are in
\* the relative order of the concatenation of the per-site results.
C16_StableTies ==
    (search_result # None /\ search_result[1].tag = "Ok") =>
        /\ \A k \in 1..Len(search_result[1].val) :
              TiesKeepOrder(WireQuestion(search_result[1].val[k].id).answers,
                            search_result[1].val[k].answers)
        /\ (fanout = "se_search_advanced" /\ Len(tasks) > 1) =>
              TiesKeepOrder(flatten([k \in 1..Len(v) |-> v[k].val.val]),
                            search_result[1].val)

\* C16, the part about questions alone (as claimed).
C16_StableQuestionTies ==
    (/\ search_result # None
     /\ search_result[1].tag = "Ok"
     /\ fanout = "se_search_advanced"
     /\ Len(tasks) > 1)
        => TiesKeepOrder(flatten([k \in 1..Len(v) |-> v[k].val.val]),
                         search_result[1].val)

\* C16: a search has returned a question with two answers of equal score.
C16_TiedAnswers ==
    /\ search_result # None
    /\ search_result[1].tag = "Ok"
    /\ \E k \in 1..Len(search_result[1].val) :
          LET as == search_result[1].val[k].answers
          IN  Len(as) = 2 /\ as[1].score = as[2].score

\* the parsing of doc fails: no anchor at all, or an anchor up to the one at
\* which the limit is reached that matches no configured site
ParseFails(doc, limit) ==
    LET m == Matching(doc)
    IN  \/ Len(doc) = 0
        \/ \E k \in 1..LimitAnchor(m, Len(doc), limit) : k \notin m

\* the state part of C17, for a search in discovery mode
C17_State ==
    request.duckduckgo =>
        \* the request is out once the search is past its start, and no fetch
        \* exists before its response is handled
        /\ pc \notin {"idle", "search"} => ddg_query # None
        /\ pc \in {"idle", "search", "ddg"} => (tasks = <<>> /\ fanout = "none")
        /\ fanout # "se_search_advanced"
        \* a search that ended without a fan-out failed in discovery, with
        \* the error of the request or of the parsing
        /\ (pc \in {"search_done", "returned"} /\ fanout = "none") =>
              /\ tasks = <<>>
              /\ IF ddg_response.tag = "Err"
                 THEN search_result
                          = Some(Err(ReqwestError(ddg_response.err)))
                 ELSE /\ ParseFails(ddg_response.val, config.limit)
                           \/ pc = "returned"
                      /\ search_result[1].tag = "Err"
                      /\ search_result[1].err.kind = "ScrapingError"
        \* the fetches: discovery succeeded; one task per site that has
        \* candidates, with all its ids and the page size their number
        /\ (pc = "fanout" /\ Queued = 1..Len(tasks)) =>
              LET doc == ddg_response.val
                  ids == IdTable(doc)
                  n == LimitAnchor(Matching(doc), Len(doc), config.limit)
                  fit(k, c) == ids[k][c] # None
              IN  /\ ddg_response.tag = "Ok"
                  /\ ~ParseFails(doc, config.limit)
                  /\ SumLen(tasks, 1) = n
                  /\ \A i, j \in 1..Len(tasks) :
                        tasks[i].site = tasks[j].site => i = j
                  /\ \A i \in 1..Len(tasks) :
                        /\ tasks[i].endpoint = "questions"
                        /\ tasks[i].site \in DOMAIN sites
                        /\ Len(tasks[i].ids) >= 1
                        /\ tasks[i].pagesize = Len(tasks[i].ids)
                        /\ \E k \in 1..n : fit(k, tasks[i].site)
                  /\ \A k \in 1..n :
                        \E i \in 1..Len(tasks) : fit(k, tasks[i].site)

\* the step part of C17: the discovery request is issued once, by the search
\* at its start; the fetch tasks are created once, and in discovery mode
\* only when the response of discovery is handled
C17_Step ==
    /\ ddg_query' # ddg_query => (ddg_query = None /\ pc = "search")
    /\ tasks' # tasks =>
          /\ tasks = <<>>
          /\ request.duckduckgo => pc = "ddg"
    /\ (\E i \in 1..Len(tasks) : status[i] = "queued" /\ status'[i] # "queued")
          => pc = "fanout"

\* C17: in discovery mode one discovery request is issued and handled before
\* any fetch exists; a failure of the request or of the parsing is what the
\* search returns and no fetch is ever created; otherwise there is exactly
\* one fetch per site with candidates, carrying all ids of the site, with the
\* page size equal to their number.
C17_DiscoveryProtocol == [](C17_State) /\ [][C17_Step]_vars

\* C17 witness: a discovery search over two configured sites runs the single
\* fetch of the one site that has candidates, with two ids and page size 2.
C17_Witness ==
    /\ request.duckduckgo
    /\ entry = "search"
    /\ Len(request.sites) = 2
    /\ pc = "fanout"
    /\ Len(tasks) = 1
    /\ Len(tasks[1].ids) = 2
    /\ tasks[1].pagesize = 2
    /\ status[1] = "running"

\* every task of the fan-out has been started and has run to its end
AllTasksFinished ==
    \A i \in 1..Len(tasks) : status[i] \in {"done", "yielded"} /\ outcome[i] # None

\* C18: search has a result after a fan-out only when every task of the
\* fan-out has finished; no step takes a task back or aborts it; and once a
\* task has failed, every task of the fan-out, the queued ones included, gets
\* started and finishes, and search returns.
C18_NoCancellation ==
    /\ []((fanout # "none" /\ search_result # None) => AllTasksFinished)
    /\ [][\A i \in 1..Len(tasks) :
             /\ status[i] = "running" => status'[i] \in {"running", "done"}
             /\ status[i] = "done" => status'[i] \in {"done", "yielded"}
             /\ status[i] = "yielded" => status'[i] = "yielded"
             /\ outcome[i] # None => outcome'[i] = outcome[i]]_vars
    /\ (Failed # {}) ~> (AllTasksFinished /\ search_result # None)

\* C18 witness: a task has failed while 8 more tasks of the fan-out are not
\* finished, one of them still queued.
C18_Witness ==
    /\ pc = "fanout"
    /\ Len(tasks) > CONCURRENT_REQUESTS_LIMIT
    /\ Failed # {}
    /\ Queued # {}
    /\ Cardinality({i \in 1..Len(tasks) : outcome[i] = None})
          >= CONCURRENT_REQUESTS_LIMIT

\* a fan-out without tasks that has ended returned the empty list
EmptyFanout ==
    (fanout # "none" /\ Len(tasks) = 0 /\ search_result # None)
        => search_result[1] = Ok(<<>>)

\* C19 (as claimed): given that every started operation completes, in every
\* fan-out, of any width, every queued task gets started and search returns;
\* a fan-out over zero sites returns the empty list and starts nothing.
C19_FanoutProgress ==
    /\ (pc = "fanout") ~> (Queued = {})
    /\ (pc = "fanout") ~> (search_result # None)
    /\ []EmptyFanout

\* C19, what holds in every case: every queued task gets started, and the
\* search returns or its merge sort panics.
C19_FanoutProgressOrPanic ==
    /\ (pc = "fanout") ~> (Queued = {})
    /\ (pc = "fanout") ~> (search_result # None \/ pc = "panicked")
    /\ []EmptyFanout

\* C19: a fan-out of more than 8 tasks has returned, and a fan-out over zero
\* sites has returned without a task.
C19_WideReturned ==
    /\ Len(tasks) > CONCURRENT_REQUESTS_LIMIT
    /\ search_result # None

C19_EmptyReturned ==
    /\ fanout = "se_search_advanced"
    /\ Len(tasks) = 0
    /\ search_result = Some(Ok(<<>>))

\* C19: the search has panicked in its merge sort after all tasks finished.
C19_Panicked == pc = "panicked" /\ AllTasksFinished /\ search_result = None

\* the number of occurrences of x in seq
Count(seq, x) == Cardinality({k \in 1..Len(seq) : seq[k] = x})

IsPermutation(a, b) ==
    /\ Len(a) = Len(b)
    /\ \A x \in Range(a) \cup Range(b) : Count(a, x) = Count(b, x)

AnswerHeader(a) == [id |-> a.id, score |-> a.score, is_accepted |-> a.is_accepted]

AnswerHeaders(as) == [k \in 1..Len(as) |-> AnswerHeader(as[k])]

\* the frame of preprocess: `out` has the questions of `raw` in their order,
\* with their ids, scores and titles, cleaned bodies, and the answers of each
\* as a multiset, every answer with its own cleaned body
PreprocessFrame(raw, out) ==
    /\ Headers(out) = Headers(raw)
    /\ \A k \in 1..Len(raw) :
          /\ DOMAIN out[k] = DOMAIN raw[k]
          /\ out[k].body = markdown_preprocess(raw[k].body)
          /\ IsPermutation(AnswerHeaders(out[k].answers),
                           AnswerHeaders(raw[k].answers))
          /\ IsPermutation(
                 out[k].answers,
                 [j \in 1..Len(raw[k].answers) |->
                     [raw[k].answers[j] EXCEPT
                         !.body = markdown_preprocess(@)]])

\* the frame of parse_markdown: `out` has the questions of `qs` and the
\* answers of each in their order, with their ids, scores, titles and
\* is_accepted flags, every body as the document parsed from it
ParseMarkdownFrame(qs, out) ==
    /\ Headers(out) = Headers(qs)
    /\ \A k \in 1..Len(qs) :
          /\ DOMAIN out[k] = DOMAIN qs[k]
          /\ out[k].body = markdown_parse(qs[k].body)
          /\ AnswerHeaders(out[k].answers) = AnswerHeaders(qs[k].answers)
          /\ \A j \in 1..Len(qs[k].answers) :
                /\ DOMAIN out[k].answers[j] = DOMAIN qs[k].answers[j]
                /\ out[k].answers[j].body
                       = markdown_parse(qs[k].answers[j].body)

\* C21: the output of a per-site task that succeeded differs from the
\* response it decoded only in the bodies, which are cleaned, and in the order
\* of the answers inside a question: the questions keep their number, order,
\* ids, scores and titles, and the answers of each question keep the multiset
\* of their (id, score, is_accepted).  The list returned by search_md differs
\* from the list search returned only in the representation of the bodies:
\* the order of the questions, the order of the answers and every id, score,
\* title and is_accepted flag are kept.
C21_ContentPipelineFrame ==
    /\ \A i \in 1..Len(tasks) :
          (outcome[i] # None /\ flatten_join(outcome[i][1]).tag = "Ok")
              => PreprocessFrame(server[tasks[i].site].val,
                                 flatten_join(outcome[i][1]).val)
    /\ (md_result # None /\ md_result[1].tag = "Ok")
          => ParseMarkdownFrame(search_result[1].val, md_result[1].val)

\* C21 witness: search_md has returned a list with a question of two answers;
\* preprocess had put these answers in another order than the response had
\* them, and the bodies of the list are parsed documents.
C21_Witness ==
    /\ md_result # None
    /\ md_result[1].tag = "Ok"
    /\ \E i \in 1..Len(tasks) :
          /\ outcome[i] # None
          /\ flatten_join(outcome[i][1]).tag = "Ok"
          /\ \E k \in 1..Len(flatten_join(outcome[i][1]).val) :
                LET q == flatten_join(outcome[i][1]).val[k]
                IN  /\ Len(q.answers) = 2
                    /\ AnswerHeaders(q.answers)
                         # AnswerHeaders(server[tasks[i].site].val[k].answers)
                    /\ \E m \in 1..Len(md_result[1].val) :
                          /\ md_result[1].val[m].id = q.id
                          /\ md_result[1].val[m].body = markdown_parse(q.body)
                          /\ AnswerHeaders(md_result[1].val[m].answers)
                               = AnswerHeaders(q.answers)

\* the outcome of parsing the discovery response when self.sites iterates in
\* the order p
ParseOutcome(p) ==
    parse_questions_from_ddg_html(ddg_response.val, sites, p, config.limit)

IsSuffix(a, b) ==
    Len(a) <= Len(b) /\ SubSeq(b, Len(b) - Len(a) + 1, Len(b)) = a

\* two configured sites whose urls, trailing slashes left aside, end alike
SuffixPair ==
    \E c, d \in DOMAIN sites :
        /\ c # d
        /\ IsSuffix(trim_end_matches(sites[c], "/"),
                    trim_end_matches(sites[d], "/"))

\* C22: when a discovery response has been parsed, the outcome, the candidate
\* map or the error, is the one that every other iteration order of the site
\* map gives for the same document, sites and limit.
C22_DeterministicAttribution ==
    JustParsed =>
        \A p \in Permutations_(sites_iter) :
            ParseOutcome(p) = ParseOutcome(sites_iter)

\* C22, what holds: the outcome does not depend on the iteration order when
\* no configured site's url is a suffix of another's.
C22_AttributionWithoutSuffix ==
    (JustParsed /\ ~SuffixPair) =>
        \A p \in Permutations_(sites_iter) :
            ParseOutcome(p) = ParseOutcome(sites_iter)

\* C22: the sites so and meta are configured, the document links to question
\* 7 of meta, and the only task of the fan-out asks so for question 7.
C22_AttributedToShorterUrl ==
    /\ JustParsed
    /\ DOMAIN sites = {"so", "meta"}
    /\ ddg_response.val = <<Some("/l/?uddg=https://meta.so.com/questions/7/faq")>>
    /\ pc = "fanout"
    /\ Len(tasks) = 1
    /\ tasks[1].site = "so"
    /\ tasks[1].ids = <<"7">>

\* C22: the same document and sites, and the task asks meta for question 7.
C22_AttributedToLongerUrl ==
    /\ JustParsed
    /\ DOMAIN sites = {"so", "meta"}
    /\ ddg_response.val = <<Some("/l/?uddg=https://meta.so.com/questions/7/faq")>>
    /\ pc = "fanout"
    /\ Len(tasks) = 1
    /\ tasks[1].site = "meta"
    /\ tasks[1].ids = <<"7">>

=============================================================================
